---- MODULE Spec2Model ----
(***************************************************************************)
(* Model of init.py: ProjectInitializer and main().                        *)
(*                                                                         *)
(* The state is the part of the filesystem under project_root that the    *)
(* script reads or writes, the fields of ProjectInitializer, the parsed   *)
(* command line, the position of the single thread inside main()/run(),   *)
(* and the record of what the run has done so far (commands invoked,      *)
(* steps entered, paths created, messages printed, exit status).          *)
(*                                                                         *)
(* A filesystem entry is one of                                            *)
(*   "absent"   nothing at the path, and the path can be created;         *)
(*   "blocked"  Path.exists() is False but the path cannot be created     *)
(*              (a dangling symbolic link into a missing directory, or a  *)
(*              parent that denies write): every creation raises OSError; *)
(*   "dir"      a directory;                                               *)
(*   a content  a regular file with that content.                         *)
(* Modification times are not part of the state.                          *)
(***************************************************************************)
EXTENDS Naturals, Sequences, FiniteSets, TLC

VARIABLES
    fs,                \* the filesystem below project_root: path -> entry
    fs0,               \* the filesystem as it was when main() started
    os_type,           \* ProjectInitializer.os_type (platform.system())
    skip_venv,         \* args.skip_venv
    skip_deps,         \* args.skip_deps
    pc,                \* position of the thread
    dir_idx,           \* index of the for loop of create_project_directories
    invoked,           \* command -> number of subprocess.run calls for it
    argv0,             \* command -> the executable path it was invoked with
    failed,            \* commands whose subprocess.run raised
    executed,          \* the setup steps entered so far, in order
    raised_in,         \* the setup steps in which an exception was raised
    created,           \* paths this run created
    printed,           \* the set of messages printed so far
    exit_code,         \* process exit status once pc = "done"
    fs_mark            \* a remembered filesystem, for comparing repeated steps

vars == <<fs, fs0, os_type, skip_venv, skip_deps, pc, dir_idx, invoked, argv0,
          failed, executed, raised_in, created, printed, exit_code, fs_mark>>

----------------------------------------------------------------------------
(* Bounds of the model *)

\* at most this many paths start as an entry of an unexpected kind
\* (a file where a directory is expected, a directory where a file is
\* expected, or a blocked path)
MaxOdd == 1

----------------------------------------------------------------------------
(* Paths, relative to project_root *)

VENV        == ".venv"
ENV         == ".env"
ENV_EXAMPLE == ".env.example"
REQS        == "requirements.txt"
PRE_COMMIT  == ".pre-commit-config.yaml"
CLAUDE_DIR  == ".claude"
CLAUDE_MD   == ".claude/CLAUDE.md"
SRC_INIT    == "src/__init__.py"
TESTS_INIT  == "tests/__init__.py"

\* init.py:81-87
directories == <<"src", "tests", "scripts", "data", ".claude">>

DirPaths  == {VENV, "src", "tests", "scripts", "data", CLAUDE_DIR}
FilePaths == {ENV, ENV_EXAMPLE, REQS, PRE_COMMIT, CLAUDE_MD, SRC_INIT, TESTS_INIT}
Paths     == DirPaths \cup FilePaths

Parent(p) == CASE p = CLAUDE_MD  -> CLAUDE_DIR
               [] p = SRC_INIT   -> "src"
               [] p = TESTS_INIT -> "tests"
               [] OTHER          -> "."

\* file contents
USER_CONTENT       == "user"                \* whatever a file held before the run
EXAMPLE_CONTENT    == "example"             \* what .env.example holds
EMPTY_CONTENT      == "empty"               \* a file made by Path.touch()
PRE_COMMIT_CONTENT == "pre_commit_content"  \* init.py:111-123
CLAUDE_CONTENT     == "claude_content"      \* init.py:148-180

Contents == {USER_CONTENT, EXAMPLE_CONTENT, EMPTY_CONTENT, PRE_COMMIT_CONTENT,
             CLAUDE_CONTENT}
Entries  == {"absent", "blocked", "dir"} \cup Contents

\* Path.exists()
Exists(f, p) == f[p] \notin {"absent", "blocked"}
IsDir(f, p)  == f[p] = "dir"
IsFile(f, p) == f[p] \in Contents

----------------------------------------------------------------------------
(* ProjectInitializer.__init__ *)

project_root == "project_root"
venv_name    == ".venv"

\* values platform.system() returns: one for each branch of the os_type tests
OsTypes == {"Windows", "Linux"}

----------------------------------------------------------------------------
(* Path construction *)

get_pip_command(os) ==
    IF os = "Windows"
    THEN <<project_root, venv_name, "Scripts", "pip">>
    ELSE <<project_root, venv_name, "bin", "pip">>

\* mutant: pre-commit always taken from .venv/bin
pre_commit_cmd_bin_only(os) ==
    <<project_root, venv_name, "bin", "pre-commit">>

pre_commit_cmd(os) ==
    IF os = "Windows"
    THEN <<project_root, venv_name, "Scripts", "pre-commit">>
    ELSE <<project_root, venv_name, "bin", "pre-commit">>

----------------------------------------------------------------------------
(* External processes.  subprocess.run(..., check=True) blocks until the   *)
(* child exits and then returns ("ok"), raises CalledProcessError on a     *)
(* non-zero exit status ("fail"), or raises an OSError such as             *)
(* FileNotFoundError when the executable cannot be started ("oserror").    *)

Commands == {"venv", "pip_upgrade", "pip_requirements", "pip_pre_commit",
             "pre_commit_install"}

\* mutant: subprocess.run without check=True
subprocess_run_unchecked(out) ==
    CASE out = "ok"      -> "none"
      [] out = "fail"    -> "none"
      [] out = "oserror" -> "Exception"

\* the exception subprocess.run leaves the caller with
subprocess_run(out) ==
    CASE out = "ok"      -> "none"
      [] out = "fail"    -> "CalledProcessError"
      [] out = "oserror" -> "Exception"

\* sys.executable is the running interpreter: it always starts
VenvOutcomes == {"ok", "fail"}

\* an executable below .venv can only start when .venv is a directory
VenvExeOutcomes(f) ==
    IF IsDir(f, VENV) THEN {"ok", "fail", "oserror"} ELSE {"oserror"}

----------------------------------------------------------------------------
(* Filesystem primitives; each yields the new filesystem and the exception *)
(* raised, "none" or "Exception" (an OSError).                              *)

Ok(f)  == [fs |-> f, raised |-> "none"]
Err(f) == [fs |-> f, raised |-> "Exception"]

ParentIsDir(f, p) == IF Parent(p) = "." THEN TRUE ELSE IsDir(f, Parent(p))

\* Path.mkdir(exist_ok=True)
mkdir(f, p) ==
    IF IsDir(f, p) THEN Ok(f)
    ELSE IF f[p] = "absent" /\ ParentIsDir(f, p) THEN Ok([f EXCEPT ![p] = "dir"])
    ELSE Err(f)

\* Path.touch(): an existing entry keeps its content
touch(f, p) ==
    IF Exists(f, p) THEN Ok(f)
    ELSE IF f[p] = "absent" /\ ParentIsDir(f, p)
         THEN Ok([f EXCEPT ![p] = EMPTY_CONTENT])
    ELSE Err(f)

\* Path.write_text(content): creates or truncates the file
write_text(f, p, content) ==
    IF (IsFile(f, p) \/ f[p] = "absent") /\ ParentIsDir(f, p)
    THEN Ok([f EXCEPT ![p] = content])
    ELSE Err(f)

\* shutil.copy(src, dst): the source is opened before the destination
copy(f, src, dst) ==
    IF IsFile(f, src) /\ (IsFile(f, dst) \/ f[dst] = "absent") /\ ParentIsDir(f, dst)
    THEN Ok([f EXCEPT ![dst] = f[src]])
    ELSE Err(f)

----------------------------------------------------------------------------
(* The setup steps, as functions of the filesystem and of the outcomes of  *)
(* the external processes they start.                                       *)

\* does create_virtual_environment start "python -m venv"?
venv_needed(f) == ~Exists(f, VENV)

\* partial: a failing "python -m venv" may already have made the directory
create_virtual_environment(f, out, partial) ==
    IF ~venv_needed(f) THEN Ok(f)
    ELSE IF out = "ok" THEN Ok([f EXCEPT ![VENV] = "dir"])
    ELSE [fs     |-> IF partial THEN [f EXCEPT ![VENV] = "dir"] ELSE f,
          raised |-> subprocess_run(out)]

\* does install_dependencies start "pip install -r requirements.txt"?
requirements_needed(f) == Exists(f, REQS)

\* the pip processes write below .venv only
install_dependencies(f, out_upgrade, out_requirements) ==
    IF subprocess_run(out_upgrade) # "none"
    THEN [fs |-> f, raised |-> subprocess_run(out_upgrade)]
    ELSE IF requirements_needed(f)
         THEN [fs |-> f, raised |-> subprocess_run(out_requirements)]
         ELSE Ok(f)

\* mutant: the copy without the test for an existing .env
setup_environment_file_overwrite(f) ==
    IF Exists(f, ENV_EXAMPLE) THEN copy(f, ENV_EXAMPLE, ENV)
    ELSE Ok(f)

setup_environment_file(f) ==
    IF Exists(f, ENV) THEN Ok(f)
    ELSE IF Exists(f, ENV_EXAMPLE) THEN copy(f, ENV_EXAMPLE, ENV)
    ELSE Ok(f)

\* mutant: the directories are made without their __init__.py
create_directory_no_init(f, dir_name) == mkdir(f, dir_name)

\* one iteration of the for loop of create_project_directories
create_directory(f, dir_name) ==
    LET made == mkdir(f, dir_name) IN
    IF made.raised # "none" THEN made
    ELSE IF dir_name \in {"src", "tests"}
         THEN touch(made.fs, IF dir_name = "src" THEN SRC_INIT ELSE TESTS_INIT)
         ELSE made

\* mutant: the loop ends after the first iteration that changed something
RECURSIVE create_project_directories_first_only(_, _)
create_project_directories_first_only(f, i) ==
    IF i > Len(directories) THEN Ok(f)
    ELSE LET r == create_directory(f, directories[i]) IN
         IF r.raised # "none" \/ r.fs # f THEN r
         ELSE create_project_directories_first_only(r.fs, i + 1)

\* the for loop from index i on
RECURSIVE create_project_directories(_, _)
create_project_directories(f, i) ==
    IF i > Len(directories) THEN Ok(f)
    ELSE LET r == create_directory(f, directories[i]) IN
         IF r.raised # "none" THEN r
         ELSE create_project_directories(r.fs, i + 1)

\* the write of .pre-commit-config.yaml, reached after "pip install
\* pre-commit" returned
write_pre_commit_config(f) ==
    IF ~Exists(f, PRE_COMMIT)
    THEN write_text(f, PRE_COMMIT, PRE_COMMIT_CONTENT)
    ELSE Ok(f)

\* the try block of setup_git_hooks up to the second subprocess.run
setup_git_hooks_config(f, out_pip) ==
    IF subprocess_run(out_pip) # "none"
    THEN [fs |-> f, raised |-> subprocess_run(out_pip)]
    ELSE write_pre_commit_config(f)

\* mutant: the exception leaves setup_git_hooks
setup_git_hooks_except_reraise(raised) == raised

\* "except Exception" of setup_git_hooks: what reaches run()
setup_git_hooks_except(raised) == "none"

\* the whole step; "pre-commit install" writes below .git only
setup_git_hooks(f, out_pip, out_install) ==
    LET r == setup_git_hooks_config(f, out_pip) IN
    [fs     |-> r.fs,
     raised |-> IF r.raised # "none" THEN setup_git_hooks_except(r.raised)
                ELSE IF subprocess_run(out_install) # "none"
                     THEN setup_git_hooks_except(subprocess_run(out_install))
                     ELSE "none"]

create_claude_config(f) ==
    IF ~Exists(f, CLAUDE_MD)
    THEN write_text(f, CLAUDE_MD, CLAUDE_CONTENT)
    ELSE Ok(f)

----------------------------------------------------------------------------
(* run() and main() *)

\* mutant: dependencies installed before the virtual environment is created
RunOrder_install_first ==
    <<"install_dependencies", "create_virtual_environment",
      "setup_environment_file", "create_project_directories",
      "setup_git_hooks", "create_claude_config", "print_next_steps">>

\* the calls of the try block of run(), in order
RunOrder == <<"create_virtual_environment", "install_dependencies",
              "setup_environment_file", "create_project_directories",
              "setup_git_hooks", "create_claude_config", "print_next_steps">>

StepIndex(step) == CHOOSE i \in 1..Len(RunOrder) : RunOrder[i] = step

\* where run() goes when a step returns
next_step(step) ==
    IF StepIndex(step) = Len(RunOrder) THEN "done"
    ELSE RunOrder[StepIndex(step) + 1]

\* mutant: the except clauses print but do not call sys.exit(1)
run_except_no_exit(f, raised) ==
    [fs        |-> f,
     message   |-> IF raised = "CalledProcessError"
                   THEN "error_during_initialization"
                   ELSE "unexpected_error",
     exit_code |-> 0]

\* mutant: the except clauses remove what the run created
run_except_rollback(f, raised) ==
    [fs        |-> [p \in Paths |-> IF Exists(fs0, p) THEN f[p] ELSE fs0[p]],
     message   |-> IF raised = "CalledProcessError"
                   THEN "error_during_initialization"
                   ELSE "unexpected_error",
     exit_code |-> 1]

\* the except clauses of run(): print and sys.exit(1); nothing is undone
run_except(f, raised) ==
    [fs        |-> f,
     message   |-> IF raised = "CalledProcessError"
                   THEN "error_during_initialization"
                   ELSE "unexpected_error",
     exit_code |-> 1]

\* mutant: --skip-deps alone still starts run()
full_run_ignores_skip_deps(sv, sd) == ~sv

\* the branch of main()
full_run(sv, sd) == ~sv /\ ~sd

----------------------------------------------------------------------------
(* Initial states: any filesystem below project_root in which at most      *)
(* MaxOdd paths hold an entry of an unexpected kind.                        *)

NormalEntry(p) ==
    IF p \in DirPaths THEN "dir"
    ELSE IF p = ENV_EXAMPLE THEN EXAMPLE_CONTENT ELSE USER_CONTENT

\* Entries of an unexpected kind that the script reacts to.  A regular file
\* where it expects a directory (.venv, the project directories) and a
\* directory named .env.example.  Where the script only asks exists() (.env,
\* .pre-commit-config.yaml, CLAUDE.md, __init__.py, requirements.txt) a
\* directory acts exactly as a file does and is not drawn separately.
WrongKind == {VENV, "src", "tests", "scripts", "data", CLAUDE_DIR, ENV_EXAMPLE}

WrongEntry(p) == IF p \in DirPaths THEN USER_CONTENT ELSE "dir"

\* the files the script creates can be blocked (for a directory, a blocked
\* path makes mkdir raise exactly as a regular file does)
Blockable == {ENV, PRE_COMMIT, CLAUDE_MD, SRC_INIT, TESTS_INIT}

OddSets == {S \in SUBSET (WrongKind \cup Blockable) : Cardinality(S) <= MaxOdd}

MakeFs(present, odd) ==
    [p \in Paths |->
        IF p \in odd \cap Blockable THEN "blocked"
        ELSE IF p \in odd THEN WrongEntry(p)
        ELSE IF p \in present THEN NormalEntry(p)
        ELSE "absent"]

\* an entry below a directory needs the directory
Consistent(f) == \A p \in Paths : f[p] # "absent" => ParentIsDir(f, p)

InitHistory ==
    /\ dir_idx = 1
    /\ invoked = [c \in Commands |-> 0]
    /\ argv0 = [c \in Commands |-> <<>>]
    /\ failed = {}
    /\ executed = <<>>
    /\ raised_in = {}
    /\ created = {}
    /\ printed = {}
    /\ exit_code = 0

Init ==
    /\ \E odd \in OddSets :
         \E present \in SUBSET (Paths \ odd) :
           /\ Consistent(MakeFs(present, odd))
           /\ fs = MakeFs(present, odd)
    /\ fs0 = fs
    /\ os_type \in OsTypes
    /\ skip_venv = FALSE
    /\ skip_deps = FALSE
    /\ pc = "main"
    /\ fs_mark = fs
    /\ InitHistory

----------------------------------------------------------------------------
(* Actions *)

NewlyCreated(f, g) == {p \in Paths : ~Exists(f, p) /\ Exists(g, p)}

\* a step of run() ends: it returned, or it raised into run()'s except
Complete(step, r) ==
    /\ created' = created \cup NewlyCreated(fs, r.fs)
    /\ IF r.raised = "none"
       THEN /\ fs' = r.fs
            /\ pc' = next_step(step)
            /\ exit_code' = exit_code
            /\ printed' = printed
            /\ UNCHANGED raised_in
       ELSE /\ fs' = run_except(r.fs, r.raised).fs
            /\ pc' = "done"
            /\ raised_in' = raised_in \cup {step}
            /\ exit_code' = run_except(r.fs, r.raised).exit_code
            /\ printed' = printed \cup {run_except(r.fs, r.raised).message}

Enter(step) == executed' = Append(executed, step)

\* main(): parse the flags, construct the initializer, branch
Main ==
    /\ pc = "main"
    /\ \E sv \in BOOLEAN, sd \in BOOLEAN :
         /\ skip_venv' = sv
         /\ skip_deps' = sd
         /\ IF full_run(sv, sd)
            THEN /\ pc' = RunOrder[1]
                 /\ printed' = printed
            ELSE /\ pc' = "done"
                 /\ printed' = printed \cup {"partial_initialization_mode"}
    /\ UNCHANGED <<fs, fs0, os_type, dir_idx, invoked, argv0, failed, executed,
                   raised_in, created, exit_code, fs_mark>>

CreateVirtualEnvironment ==
    /\ pc = "create_virtual_environment"
    /\ Enter("create_virtual_environment")
    /\ \E out \in VenvOutcomes, partial \in BOOLEAN :
         /\ Complete("create_virtual_environment",
                     create_virtual_environment(fs, out, partial))
         /\ IF venv_needed(fs)
            THEN /\ invoked' = [invoked EXCEPT !["venv"] = @ + 1]
                 /\ argv0' = [argv0 EXCEPT !["venv"] = <<"sys.executable">>]
                 /\ failed' = IF out = "ok" THEN failed ELSE failed \cup {"venv"}
            ELSE UNCHANGED <<invoked, argv0, failed>>
    /\ UNCHANGED <<fs0, os_type, skip_venv, skip_deps, dir_idx, fs_mark>>

InstallDependencies ==
    /\ pc = "install_dependencies"
    /\ Enter("install_dependencies")
    /\ \E o1 \in VenvExeOutcomes(fs), o2 \in VenvExeOutcomes(fs) :
         LET second == o1 = "ok" /\ requirements_needed(fs) IN
         /\ Complete("install_dependencies", install_dependencies(fs, o1, o2))
         /\ invoked' = [invoked EXCEPT !["pip_upgrade"] = @ + 1,
                                       !["pip_requirements"] =
                                           IF second THEN @ + 1 ELSE @]
         /\ argv0' = [argv0 EXCEPT !["pip_upgrade"] = get_pip_command(os_type),
                                   !["pip_requirements"] =
                                       IF second THEN get_pip_command(os_type) ELSE @]
         /\ failed' = failed \cup (IF o1 # "ok" THEN {"pip_upgrade"} ELSE {})
                             \cup (IF second /\ o2 # "ok"
                                   THEN {"pip_requirements"} ELSE {})
    /\ UNCHANGED <<fs0, os_type, skip_venv, skip_deps, dir_idx, fs_mark>>

SetupEnvironmentFile ==
    /\ pc = "setup_environment_file"
    /\ Enter("setup_environment_file")
    /\ Complete("setup_environment_file", setup_environment_file(fs))
    /\ UNCHANGED <<fs0, os_type, skip_venv, skip_deps, dir_idx, invoked, argv0,
                   failed, fs_mark>>

\* one iteration of the loop; the step returns after the last one
CreateProjectDirectories ==
    /\ pc = "create_project_directories"
    /\ IF dir_idx = 1 THEN Enter("create_project_directories")
       ELSE UNCHANGED executed
    /\ LET r == create_directory(fs, directories[dir_idx]) IN
       IF r.raised = "none" /\ dir_idx < Len(directories)
       THEN /\ fs' = r.fs
            /\ created' = created \cup NewlyCreated(fs, r.fs)
            /\ dir_idx' = dir_idx + 1
            /\ UNCHANGED <<pc, exit_code, printed, raised_in>>
       ELSE /\ Complete("create_project_directories", r)
            /\ UNCHANGED dir_idx
    /\ UNCHANGED <<fs0, os_type, skip_venv, skip_deps, invoked, argv0, failed,
                   fs_mark>>

\* the step never raises into run(): its except clause prints a warning
SetupGitHooks ==
    /\ pc = "setup_git_hooks"
    /\ Enter("setup_git_hooks")
    /\ \E o1 \in VenvExeOutcomes(fs), o2 \in VenvExeOutcomes(fs) :
         LET cfg    == setup_git_hooks_config(fs, o1)
             second == cfg.raised = "none"
             caught == cfg.raised # "none" \/ o2 # "ok"
             r      == setup_git_hooks(fs, o1, o2)
         IN
         /\ created' = created \cup NewlyCreated(fs, r.fs)
         /\ raised_in' = IF caught \/ r.raised # "none"
                         THEN raised_in \cup {"setup_git_hooks"} ELSE raised_in
         /\ IF r.raised = "none"
            THEN /\ fs' = r.fs
                 /\ pc' = next_step("setup_git_hooks")
                 /\ exit_code' = exit_code
                 /\ printed' = IF caught
                               THEN printed \cup {"could_not_set_up_git_hooks"}
                               ELSE printed \cup {"git_hooks_installed"}
            ELSE /\ fs' = run_except(r.fs, r.raised).fs
                 /\ pc' = "done"
                 /\ exit_code' = run_except(r.fs, r.raised).exit_code
                 /\ printed' = printed \cup {run_except(r.fs, r.raised).message}
         /\ invoked' = [invoked EXCEPT !["pip_pre_commit"] = @ + 1,
                                       !["pre_commit_install"] =
                                           IF second THEN @ + 1 ELSE @]
         /\ argv0' = [argv0 EXCEPT !["pip_pre_commit"] = get_pip_command(os_type),
                                   !["pre_commit_install"] =
                                       IF second THEN pre_commit_cmd(os_type) ELSE @]
         /\ failed' = failed \cup (IF o1 # "ok" THEN {"pip_pre_commit"} ELSE {})
                             \cup (IF second /\ o2 # "ok"
                                   THEN {"pre_commit_install"} ELSE {})
    /\ UNCHANGED <<fs0, os_type, skip_venv, skip_deps, dir_idx, fs_mark>>

CreateClaudeConfig ==
    /\ pc = "create_claude_config"
    /\ Enter("create_claude_config")
    /\ Complete("create_claude_config", create_claude_config(fs))
    /\ UNCHANGED <<fs0, os_type, skip_venv, skip_deps, dir_idx, invoked, argv0,
                   failed, fs_mark>>

PrintNextSteps ==
    /\ pc = "print_next_steps"
    /\ Enter("print_next_steps")
    /\ printed' = printed \cup {"project_initialization_complete"}
    /\ pc' = next_step("print_next_steps")
    /\ UNCHANGED <<fs, fs0, os_type, skip_venv, skip_deps, dir_idx, invoked,
                   argv0, failed, raised_in, created, exit_code, fs_mark>>

Next ==
    \/ Main
    \/ CreateVirtualEnvironment
    \/ InstallDependencies
    \/ SetupEnvironmentFile
    \/ CreateProjectDirectories
    \/ SetupGitHooks
    \/ CreateClaudeConfig
    \/ PrintNextSteps

Spec == Init /\ [][Next]_vars

----------------------------------------------------------------------------
(* Properties of run() and main(), checked under Spec *)

Complete_Printed == "project_initialization_complete" \in printed

StepOf(c) ==
    CASE c = "venv"               -> "create_virtual_environment"
      [] c = "pip_upgrade"        -> "install_dependencies"
      [] c = "pip_requirements"   -> "install_dependencies"
      [] c = "pip_pre_commit"     -> "setup_git_hooks"
      [] c = "pre_commit_install" -> "setup_git_hooks"

\* the order the specification gives for the steps of run()
SpecifiedOrder == <<"create_virtual_environment", "install_dependencies",
                    "setup_environment_file", "create_project_directories",
                    "setup_git_hooks", "create_claude_config",
                    "print_next_steps">>

PositionOf(step) ==
    CHOOSE i \in 1..Len(SpecifiedOrder) : SpecifiedOrder[i] = step

\* the paths claim C1 lists
GuardedPaths == Paths \ {REQS, ENV_EXAMPLE}

\* C1: no overwrite.  In every state reached during and after run(), each of
\* .venv, .env, .pre-commit-config.yaml, .claude/CLAUDE.md, src/__init__.py,
\* tests/__init__.py, src, tests, scripts, data and .claude that existed when
\* the program started still exists with the kind and content it had; hence
\* only a path that was absent is ever created.
C1_NoOverwrite ==
    \A p \in GuardedPaths :
        /\ Exists(fs0, p) => fs[p] = fs0[p]
        /\ p \in created => ~Exists(fs0, p)

\* a complete run over a project that already had its own .env, hook
\* configuration, CLAUDE.md and src/__init__.py beside an .env.example, and
\* that still had something to create
C1_Witness ==
    /\ pc = "done"
    /\ Complete_Printed
    /\ fs0[ENV] = USER_CONTENT
    /\ IsFile(fs0, ENV_EXAMPLE)
    /\ fs0[PRE_COMMIT] = USER_CONTENT
    /\ fs0[CLAUDE_MD] = USER_CONTENT
    /\ fs0[SRC_INIT] = USER_CONTENT
    /\ fs[ENV] = USER_CONTENT
    /\ "tests" \in created

C3_ExitOneIffAnyError ==
    pc = "done" =>
        /\ (raised_in # {} \/ failed # {}) <=> exit_code = 1
        /\ (raised_in # {} \/ failed # {}) => ~Complete_Printed

\* the errors that reach the except clauses of run()
UncaughtIn == raised_in \ {"setup_git_hooks"}

\* C3 as amended: an external-process failure or other exception raised in
\* any step except inside setup_git_hooks ends the program at once with exit
\* code 1 and without the completion message, and the exit code is 1 only
\* after such an error; an exception raised inside setup_git_hooks is caught
\* there and changes neither.
C3_ExitOneIffUncaughtError ==
    /\ UncaughtIn # {} => pc = "done" /\ exit_code = 1 /\ ~Complete_Printed
    /\ failed \ {"pip_pre_commit", "pre_commit_install"} # {} => UncaughtIn # {}
    /\ exit_code = 1 => UncaughtIn # {}

\* mkdir raised on a regular file named like a project directory
C3_Witness ==
    /\ pc = "done"
    /\ exit_code = 1
    /\ "create_project_directories" \in raised_in
    /\ failed = {}
    /\ "unexpected_error" \in printed

\* C4: once main() has branched, run() is executing or has executed exactly
\* when neither flag is set; with a flag set the program has ended normally,
\* no step was entered, no process was started and the filesystem is as it
\* was.
C4_FlagsGiveNoOp ==
    pc # "main" =>
        /\ (executed # <<>> \/ pc # "done") <=> (~skip_venv /\ ~skip_deps)
        /\ (skip_venv \/ skip_deps) =>
               /\ pc = "done"
               /\ executed = <<>>
               /\ \A c \in Commands : invoked[c] = 0
               /\ fs = fs0
               /\ created = {}
               /\ exit_code = 0
               /\ "partial_initialization_mode" \in printed

\* only --skip-deps given, in a project where a full run would create .venv
C4_Witness ==
    /\ pc = "done"
    /\ skip_deps
    /\ ~skip_venv
    /\ ~Exists(fs, VENV)
    /\ ~Exists(fs, "src")

\* what claim C7 promises of the filesystem after a successful run
C7_Postcondition ==
    /\ \A d \in DirPaths : IsDir(fs, d)
    /\ Exists(fs, SRC_INIT)
    /\ Exists(fs, TESTS_INIT)
    /\ Exists(fs, PRE_COMMIT)
    /\ Exists(fs, CLAUDE_MD)
    /\ Exists(fs, ENV) <=> (Exists(fs0, ENV) \/ Exists(fs0, ENV_EXAMPLE))
    /\ ENV \in created => fs[ENV] = fs0[ENV_EXAMPLE]

\* requirements.txt and .env.example are never created, modified or deleted
C7_InputsUntouched ==
    /\ fs[REQS] = fs0[REQS]
    /\ fs[ENV_EXAMPLE] = fs0[ENV_EXAMPLE]

\* C7 as stated: once print_next_steps is reached and no external process has
\* failed, the postcondition holds; requirements.txt and .env.example are as
\* they were.
C7_SuccessPostcondition ==
    /\ (pc \in {"print_next_steps", "done"} /\ Len(executed) >= PositionOf("create_claude_config")
        /\ exit_code = 0 /\ failed = {}) => C7_Postcondition
    /\ C7_InputsUntouched

\* C7 as amended: the postcondition holds once print_next_steps is reached
\* with no external process having failed and no exception having been
\* caught inside setup_git_hooks (the write of .pre-commit-config.yaml did
\* not raise, so "pre-commit install" was started and succeeded).
C7_SuccessPostconditionNoCaughtError ==
    /\ (pc \in {"print_next_steps", "done"} /\ Len(executed) >= PositionOf("create_claude_config")
        /\ exit_code = 0 /\ failed = {} /\ raised_in = {}) => C7_Postcondition
    /\ C7_InputsUntouched

\* a complete, error-free run that made .env from .env.example and read
\* requirements.txt
C7_Witness ==
    /\ pc = "done"
    /\ Complete_Printed
    /\ failed = {}
    /\ raised_in = {}
    /\ ENV \in created
    /\ fs[ENV] = EXAMPLE_CONTENT
    /\ invoked["pip_requirements"] = 1
    /\ invoked["pre_commit_install"] = 1
    /\ PRE_COMMIT \in created

\* C8: no retries and no rollback.  Every external command is started at most
\* once in a run, a failed command exactly once, and every path the run has
\* created is still there in every later state, also after the run stopped
\* on an error.
C8_NoRetryNoRollback ==
    /\ \A c \in Commands : invoked[c] <= 1
    /\ \A c \in failed : invoked[c] = 1
    /\ \A p \in created : Exists(fs, p)

\* the run stopped in create_claude_config after setup_git_hooks had written
\* .pre-commit-config.yaml and "pre-commit install" had failed
C8_Witness ==
    /\ pc = "done"
    /\ exit_code = 1
    /\ "create_claude_config" \in raised_in
    /\ "pre_commit_install" \in failed
    /\ PRE_COMMIT \in created
    /\ VENV \in created
    /\ ENV \in created
    /\ "data" \in created

VenvCommands == {"pip_upgrade", "pip_requirements", "pip_pre_commit",
                 "pre_commit_install"}

\* C9: the steps are entered in the specified order, one after the other:
\* the steps entered so far are a prefix of that order and the thread is in
\* the last of them or about to enter the next.  Hence pip and pre-commit are
\* only started when .venv exists, and create_claude_config is entered, and
\* CLAUDE.md written, only when .claude is a directory.
C9_StepOrder ==
    /\ Len(executed) <= Len(SpecifiedOrder)
    /\ executed = SubSeq(SpecifiedOrder, 1, Len(executed))
    /\ pc \notin {"main", "done"} =>
           \/ PositionOf(pc) = Len(executed) + 1
           \/ pc = "create_project_directories" /\ dir_idx > 1
                 /\ PositionOf(pc) = Len(executed)
    /\ \A c \in VenvCommands : invoked[c] > 0 => Exists(fs, VENV)
    /\ pc = "create_claude_config" => IsDir(fs, CLAUDE_DIR)
    /\ CLAUDE_MD \in created => IsDir(fs, CLAUDE_DIR)

\* a complete run that had to create .venv, .claude and CLAUDE.md itself
C9_Witness ==
    /\ pc = "done"
    /\ Len(executed) = Len(SpecifiedOrder)
    /\ VENV \in created
    /\ CLAUDE_DIR \in created
    /\ CLAUDE_MD \in created
    /\ invoked["pre_commit_install"] = 1

\* C10 as stated: after an exception inside setup_git_hooks the program ends
\* with create_claude_config and print_next_steps executed and not with exit
\* code 1; and a failed "pip install pre-commit" leaves an absent
\* .pre-commit-config.yaml absent.
C10_HookFailureNeverFatal ==
    /\ ("setup_git_hooks" \in raised_in /\ pc = "done") =>
           /\ Len(executed) = Len(SpecifiedOrder)
           /\ Complete_Printed
           /\ exit_code = 0
    /\ "pip_pre_commit" \in failed => fs[PRE_COMMIT] = fs0[PRE_COMMIT]

\* C10 as amended: an exception inside setup_git_hooks is caught in that step
\* and run() goes on to create_claude_config; unless create_claude_config
\* itself raises, print_next_steps runs and the exit code is not 1.  A failed
\* "pip install pre-commit" leaves .pre-commit-config.yaml as it was.
C10_HookFailureNotFatalByItself ==
    /\ "setup_git_hooks" \in raised_in =>
           /\ "could_not_set_up_git_hooks" \in printed
           /\ pc \in {"create_claude_config", "print_next_steps", "done"}
           /\ pc = "done" => Len(executed) >= PositionOf("create_claude_config")
           /\ (pc = "done" /\ "create_claude_config" \notin raised_in) =>
                  /\ Len(executed) = Len(SpecifiedOrder)
                  /\ Complete_Printed
                  /\ exit_code = 0
    /\ "pip_pre_commit" \in failed => fs[PRE_COMMIT] = fs0[PRE_COMMIT]

\* "pip install pre-commit" failed in a project without hook configuration
\* and the run still completed
C10_Witness ==
    /\ pc = "done"
    /\ "pip_pre_commit" \in failed
    /\ ~Exists(fs, PRE_COMMIT)
    /\ Complete_Printed
    /\ exit_code = 0
    /\ CLAUDE_MD \in created

----------------------------------------------------------------------------
(* Path construction for every platform name, checked under SpecOs: the    *)
(* whole program on a project without project directories yet, with        *)
(* os_type ranging over what platform.system() documents ("" when the      *)
(* system cannot be determined) and a differently cased name, as os_type   *)
(* is a plain attribute that the tests set through monkeypatch.             *)

PlatformValues == {"Windows", "Linux", "Darwin", "Java", "windows", ""}

TopLevelFiles == {VENV, REQS, ENV_EXAMPLE, ENV, PRE_COMMIT}

InitOs ==
    /\ \E present \in SUBSET TopLevelFiles : fs = MakeFs(present, {})
    /\ fs0 = fs
    /\ os_type \in PlatformValues
    /\ skip_venv = FALSE
    /\ skip_deps = FALSE
    /\ pc = "main"
    /\ fs_mark = fs
    /\ InitHistory

SpecOs == InitOs /\ [][Next]_vars

\* C6: get_pip_command() is <project_root>/.venv/Scripts/pip when os_type is
\* exactly "Windows" and <project_root>/.venv/bin/pip for every other value;
\* every pip process of the run is started from that path, and "pre-commit
\* install" from pre-commit in the same subdirectory of .venv.
C6_PlatformPaths ==
    LET sub == IF os_type = "Windows" THEN "Scripts" ELSE "bin" IN
    /\ get_pip_command(os_type) = <<"project_root", ".venv", sub, "pip">>
    /\ \A c \in {"pip_upgrade", "pip_requirements", "pip_pre_commit"} :
           invoked[c] > 0 => argv0[c] = <<"project_root", ".venv", sub, "pip">>
    /\ invoked["pre_commit_install"] > 0 =>
           /\ argv0["pre_commit_install"] =
                  <<"project_root", ".venv", sub, "pre-commit">>
           /\ argv0["pre_commit_install"][3] = argv0["pip_pre_commit"][3]

\* on Windows, pip and pre-commit were both started from .venv/Scripts
C6_Witness ==
    /\ os_type = "Windows"
    /\ invoked["pip_requirements"] = 1
    /\ invoked["pre_commit_install"] = 1
    /\ argv0["pip_pre_commit"][3] = "Scripts"
    /\ argv0["pre_commit_install"][3] = "Scripts"

----------------------------------------------------------------------------
(* Repeating steps, checked under SpecIdem.  From any initial filesystem,   *)
(* either one of the six setup steps is executed twice in a row, or run()  *)
(* is executed and, when it completed, executed again.  Every external     *)
(* process succeeds wherever it can be started at all.                      *)

SetupSteps == SubSeq(RunOrder, 1, Len(RunOrder) - 1)

\* the outcome of a process that succeeds if it can start
Succeeds(f) == IF "ok" \in VenvExeOutcomes(f) THEN "ok" ELSE "oserror"

\* a whole setup step, with succeeding processes
StepResult(step, f) ==
    CASE step = "create_virtual_environment" ->
             create_virtual_environment(f, "ok", FALSE)
      [] step = "install_dependencies" ->
             install_dependencies(f, Succeeds(f), Succeeds(f))
      [] step = "setup_environment_file" -> setup_environment_file(f)
      [] step = "create_project_directories" -> create_project_directories(f, 1)
      [] step = "setup_git_hooks" ->
             setup_git_hooks(f, Succeeds(f), Succeeds(f))
      [] step = "create_claude_config" -> create_claude_config(f)

InitIdem ==
    /\ \E odd \in OddSets :
         \E present \in SUBSET (Paths \ odd) :
           /\ Consistent(MakeFs(present, odd))
           /\ fs = MakeFs(present, odd)
    /\ fs0 = fs
    /\ os_type = "Linux"
    /\ skip_venv = FALSE
    /\ skip_deps = FALSE
    /\ pc \in {"step_twice", "run_twice"}
    /\ fs_mark = fs
    /\ InitHistory

\* one of the six steps, and then the same step again; fs_mark keeps the
\* filesystem the first execution left
StepTwice ==
    /\ pc = "step_twice"
    /\ Len(executed) < 2
    /\ \E i \in 1..Len(SetupSteps) :
         /\ IF executed = <<>> THEN TRUE ELSE executed[1] = SetupSteps[i]
         /\ fs' = StepResult(SetupSteps[i], fs).fs
         /\ executed' = Append(executed, SetupSteps[i])
         /\ fs_mark' = IF executed = <<>> THEN fs' ELSE fs_mark
    /\ UNCHANGED <<fs0, os_type, skip_venv, skip_deps, pc, dir_idx, invoked,
                   argv0, failed, raised_in, created, printed, exit_code>>

\* the steps of run(), and after a run that completed, the steps of a second
\* run(); fs_mark keeps the filesystem the first run left
RunTwice ==
    /\ pc = "run_twice"
    /\ Len(executed) < 2 * Len(SetupSteps)
    /\ LET step == SetupSteps[(Len(executed) % Len(SetupSteps)) + 1]
           r    == StepResult(step, fs)
       IN
       /\ fs' = r.fs
       /\ executed' = Append(executed, step)
       /\ fs_mark' = IF Len(executed') = Len(SetupSteps) THEN fs' ELSE fs_mark
       /\ pc' = IF r.raised = "none" THEN pc ELSE "done"
       /\ exit_code' = IF r.raised = "none" THEN exit_code
                       ELSE run_except(r.fs, r.raised).exit_code
    /\ UNCHANGED <<fs0, os_type, skip_venv, skip_deps, dir_idx, invoked, argv0,
                   failed, raised_in, created, printed>>

NextIdem ==
    \/ StepTwice
    \/ RunTwice

SpecIdem == InitIdem /\ [][NextIdem]_vars

====
